---- MODULE Spec2Model ----
(***************************************************************************)
(* Model of the PyTorrent download core: the piece manager                 *)
(* (core/piece_manager.py, piece.py), the per-peer download task           *)
(* (network/peer_manager.py), the frame listener (network/peer.py,         *)
(* protocol/message.py) and the session loops (torrent_session.py,         *)
(* main.py).                                                               *)
(*                                                                         *)
(* Byte strings are sequences of small naturals.  Offsets are 0-based as   *)
(* in the source; sequences are 1-based, so byte offset i is element i+1.  *)
(***************************************************************************)
EXTENDS Integers, Sequences, FiniteSets, TLC

\* ------------------------------------------------------------------ bounds
PIECE_LENGTH == 2        \* torrent.piece_length of the modelled torrents
BLOCK_SIZE   == 1        \* BLOCK_SIZE (16 KiB in the source), in model bytes
TickSeconds  == 61       \* granularity of the passage of time
MaxTasks     == 3        \* connection attempts and peer sessions at a time
MaxRuns      == 1        \* times the download is run to COMPLETED before start is no longer called
MaxConnected == 2        \* connections counted in stats at a time

\* ------------------------------------------------------- program constants
LOCK_TIMEOUT == 120      \* choose_next_piece: "locked for too long"
MAX_RETRIES  == 3        \* async_download_piece
max_failures == 5        \* handle_peer

Sessions == {1, 2}       \* one Peer object / handle_peer task each

NoPiece  == -1           \* Python None where a piece index is expected
NoLock   == -1           \* key absent from piece_lock_time
BadByte  == 9            \* a byte that occurs nowhere in the torrent's data

Max(a, b) == IF a >= b THEN a ELSE b
Min(a, b) == IF a <= b THEN a ELSE b

\* SessionState
STOPPED     == "STOPPED"
DOWNLOADING == "DOWNLOADING"
PAUSED      == "PAUSED"
COMPLETED   == "COMPLETED"
ERROR       == "ERROR"

\* --------------------------------------------------------------- torrents
\* The data the swarm shares: byte at absolute offset i is Content[i+1].
Content == <<1, 2, 3>>
Bytes == 1..3            \* the byte values a block is made of

\* hashlib.sha1(...).digest(), as an ideal (collision-free) digest.
SHA1(data) == <<"sha1", data>>

\* data[a:b] for 0 <= a, 0 <= b (Python slicing clamps to the length).
PySlice(data, a, b) == SubSeq(data, Min(a, Len(data)) + 1, Min(b, Len(data)))

\* buf[a:b] = data (Python slice assignment on a bytearray).
PySliceAssign(buf, a, b, data) ==
    LET s == Min(a, Len(buf))
        e == Min(Max(b, s), Len(buf))
    IN  SubSeq(buf, 1, s) \o data \o SubSeq(buf, e + 1, Len(buf))

Zeros(n) == [i \in 1..n |-> 0]

\* Torrent.load_file: a single-file torrent sets file_length; a multi-file
\* torrent fills `files` and leaves file_length at its initial 0.
\* pieces is the concatenation of the 20-byte piece hashes, here one digest
\* per piece of Content.
SingleFileTorrent ==
    [files |-> <<Len(Content)>>, file_length |-> Len(Content),
     piece_length |-> PIECE_LENGTH,
     total_pieces |-> (Len(Content) + PIECE_LENGTH - 1) \div PIECE_LENGTH]
MultiFileTorrent ==
    [files |-> <<1, Len(Content) - 1>>, file_length |-> 0,
     piece_length |-> PIECE_LENGTH,
     total_pieces |-> (Len(Content) + PIECE_LENGTH - 1) \div PIECE_LENGTH]
Torrents == {SingleFileTorrent, MultiFileTorrent}

TorrentPieceHash(t, i) ==
    SHA1(PySlice(Content, i * t.piece_length, (i + 1) * t.piece_length))

VARIABLES
    torrent,            \* the loaded Torrent (immutable after load_file)
    output_files,       \* PieceManager.output_files, sorted by offset
    disk,               \* contents of the output files
    progress_file,      \* contents of <name>.progress, or <<>> if absent
    busy_pieces,        \* PieceManager.busy_pieces
    completed_pieces,   \* PieceManager.completed_pieces
    bitfield,           \* PieceManager.bitfield
    piece_lock_time,    \* PieceManager.piece_lock_time, as age in seconds
    failed_attempts,    \* PieceManager.failed_attempts
    holder,             \* the session whose choose_next_piece made a piece busy (0: not busy)
    raw_data,           \* Piece.raw_data of every piece
    received,           \* Piece.received of every piece
    connected_peers,    \* AsyncPeerManager.connected_peers (by session)
    session_state,      \* TorrentSession.state
    pc,                 \* position of each handle_peer task
    peer_choking,       \* Peer.state['peer_choking']
    peer_bitfield,      \* Peer.bitfield
    next_piece,         \* handle_peer: next_piece
    offset,             \* async_download_piece: offset
    retries,            \* async_download_piece: retries
    cur_piece_length,   \* async_download_piece: cur_piece_length
    failure_count,      \* handle_peer: failure_count
    writer_closed,      \* peer.writer is None or peer.writer.is_closing()
    have_sent,          \* number of Have(index) messages sent, per piece
    choked,             \* the last Choke/Unchoke frame a peer sent was a Choke
    known_peers,        \* AsyncPeerManager.known_peers (its keys)
    registry,           \* AsyncPeerManager.connected_peers, by (ip, port)
    connecting,         \* add_peer_info calls awaiting _connect_peer, per endpoint
    handlers,           \* live handle_peer tasks, per endpoint
    sent_peers,         \* pex.sent_peers of every peer
    pex_added,          \* the 'added' field of the latest PEX message, per peer
    peer_source,        \* peer.source: of the registered Peer, and how many attempts and tasks are from pex
    stats,              \* AsyncPeerManager.stats: connected_from_tracker, connected_from_pex
    pex_peers,          \* AsyncPeerManager.pex_peers (its keys)
    pex_times,          \* how often an endpoint was put into 'added' for a peer's session
    announced,          \* events sent to the tracker after the first request
    task,               \* TorrentSession.task, and the download loops that have not ended
    probe,              \* a Piece object exercised on its own, with its history
    event               \* the latest step's recieve_block_piece call and its outcome

pmvars   == <<output_files, disk, progress_file, busy_pieces, completed_pieces,
              bitfield, piece_lock_time, failed_attempts, raw_data, received,
              holder>>
peervars == <<pc, peer_choking, peer_bitfield, next_piece, offset, retries,
              cur_piece_length, failure_count, writer_closed>>
gossipvars == <<known_peers, registry, connecting, handlers, sent_peers,
                pex_added,
                pex_times,
                pex_peers,
                stats,
                peer_source>>
vars == <<torrent, pmvars, connected_peers, session_state, peervars,
          have_sent, choked, gossipvars, announced, task, probe, event>>

\* ------------------------------------------------------------- piece.py
\* Piece.received is a dict offset -> length; 0 stands for "key absent".
Offsets == 0..(PIECE_LENGTH - 1)
EmptyReceived == [o \in Offsets |-> 0]

RECURSIVE SumValues(_, _)
SumValues(rec, S) ==
    IF S = {} THEN 0
    ELSE LET o == CHOOSE x \in S : TRUE IN rec[o] + SumValues(rec, S \ {o})

\* Piece.add_block
add_block_counting(piece, off, data) ==
    [raw_data |-> PySliceAssign(piece.raw_data, off, off + Len(data), data),
     received |-> [piece.received EXCEPT ![off] = @ + Len(data)]]
add_block(piece, off, data) ==
    [raw_data |-> PySliceAssign(piece.raw_data, off, off + Len(data), data),
     received |-> [piece.received EXCEPT ![off] = Len(data)]]

\* Piece.is_complete
is_complete(piece, piece_length) ==
    SumValues(piece.received, Offsets) >= piece_length

\* Piece.flush
flush(piece_length) ==
    [raw_data |-> Zeros(piece_length), received |-> EmptyReceived]

\* A Piece with its history since the last flush: the byte offsets some
\* add_block covered, the latest block, and whether the latest add_block
\* repeated the one before it.
NoBlock == <<-1, <<>>>>
NewPiece(piece_length) ==
    [raw_data |-> Zeros(piece_length), received |-> EmptyReceived,
     covered |-> {}, last |-> NoBlock, repeated |-> FALSE]
NoProbe == NewPiece(0)

\* ----------------------------------------------- PieceManager.__init__
\* PieceManager._generate_pieces: the list self.pieces, as the sequence of
\* [piece_length, piece_hash]; piece index i is element i+1.
CalculatedPieces(t) == (t.file_length + t.piece_length - 1) \div t.piece_length
GeneratePieces(t) ==
    IF t.file_length <= 0 THEN <<>>
    ELSE [k \in 1..CalculatedPieces(t) |->
            LET i == k - 1
                last_piece_length ==
                    t.file_length - (CalculatedPieces(t) - 1) * t.piece_length
            IN  [piece_length |->
                    IF i < CalculatedPieces(t) - 1 THEN t.piece_length
                    ELSE IF last_piece_length > 0 THEN last_piece_length
                         ELSE t.piece_length,
                 piece_hash |-> TorrentPieceHash(t, i)]]

\* self.number_of_pieces after _generate_pieces
NumberOfPiecesOf(t) ==
    IF t.file_length <= 0 THEN t.total_pieces ELSE CalculatedPieces(t)

pieces           == GeneratePieces(torrent)
number_of_pieces == NumberOfPiecesOf(torrent)
PieceIdx         == 0..(Len(pieces) - 1)
PieceLen(p)      == pieces[p + 1].piece_length

\* PieceManager._pre_allocate_files: output_files with running offsets,
\* each file created with `length` zero bytes.
RECURSIVE FileOffset(_, _)
FileOffset(files, i) == IF i = 1 THEN 0 ELSE FileOffset(files, i - 1) + files[i - 1]
PreAllocate(t) ==
    IF Len(t.files) > 1
    THEN [i \in 1..Len(t.files) |->
            [length |-> t.files[i], offset |-> FileOffset(t.files, i)]]
    ELSE <<[length |-> t.file_length, offset |-> 0]>>

\* --------------------------------------- PieceManager._write_piece_to_files
\* f.seek(pos); f.write(data) on a file opened 'r+b'.
FileWrite(file, pos, data) ==
    LET padded == IF pos > Len(file) THEN file \o Zeros(pos - Len(file)) ELSE file
    IN  SubSeq(padded, 1, pos) \o data \o SubSeq(padded, pos + Len(data) + 1, Len(padded))

\* The loop over sorted_files; i is the position in the sorted list, failing
\* the set of files whose open/seek/write raises (caught and logged).
DataSlice(piece_data, current_offset, overlap_start, overlap_end) ==
    PySlice(piece_data, overlap_start, overlap_end)

RECURSIVE WriteLoop(_, _, _, _, _, _, _, _)
WriteLoop(files, d, i, piece_offset, piece_data, current_offset, remaining_bytes, failing) ==
    IF i > Len(files) THEN d
    ELSE
      LET file_start == files[i].offset
          file_end   == file_start + files[i].length
          pos        == piece_offset + current_offset
      IN  IF pos < file_end /\ pos + remaining_bytes > file_start
          THEN LET overlap_start  == Max(0, file_start - pos)
                   overlap_end    == Min(remaining_bytes, file_end - pos)
                   overlap_length == overlap_end - overlap_start
                   write_pos      == Max(0, (pos + overlap_start) - file_start)
                   data_slice     == DataSlice(piece_data, current_offset,
                                               overlap_start, overlap_end)
                   d2 == IF i \in failing THEN d
                         ELSE [d EXCEPT ![i] = FileWrite(d[i], write_pos, data_slice)]
               IN  IF remaining_bytes - overlap_length <= 0 THEN d2
                   ELSE WriteLoop(files, d2, i + 1, piece_offset, piece_data,
                                  current_offset + overlap_length,
                                  remaining_bytes - overlap_length, failing)
          ELSE WriteLoop(files, d, i + 1, piece_offset, piece_data,
                         current_offset, remaining_bytes, failing)

write_piece_to_files(files, d, piece_length, piece_index, piece_data, failing) ==
    WriteLoop(files, d, 1, piece_index * piece_length, piece_data, 0,
              Len(piece_data), failing)

\* ------------------------------------------- PieceManager.get_piece_block
\* None is the empty sequence (a served block is never empty otherwise).
NoData == <<>>

RECURSIVE ReadLoop(_, _, _, _, _, _, _)
ReadLoop(files, d, i, absolute_offset, length, result_data, bytes_read) ==
    IF i > Len(files)
    THEN IF bytes_read # length
         THEN (IF bytes_read > 0 THEN PySlice(result_data, 0, bytes_read) ELSE NoData)
         ELSE result_data
    ELSE
      LET file_start == files[i].offset
          file_end   == file_start + files[i].length
      IN  IF absolute_offset >= file_end \/ absolute_offset + length <= file_start
          THEN ReadLoop(files, d, i + 1, absolute_offset, length, result_data, bytes_read)
          ELSE
            LET read_start  == Max(0, absolute_offset - file_start)
                read_end    == Min(files[i].length, absolute_offset + length - file_start)
                read_length == read_end - read_start
                buffer_offset == Max(0, file_start - absolute_offset)
                file_data   == PySlice(d[i], read_start, read_start + read_length)
            IN  IF read_length <= 0
                THEN ReadLoop(files, d, i + 1, absolute_offset, length,
                              result_data, bytes_read)
                ELSE ReadLoop(files, d, i + 1, absolute_offset, length,
                              PySliceAssign(result_data, buffer_offset,
                                            buffer_offset + Len(file_data), file_data),
                              bytes_read + Len(file_data))

\* PieceManager.has_piece
has_piece(completed, piece_index) == piece_index \in completed

get_piece_block(completed, files, d, piece_length, piece_index, off, length) ==
    IF ~has_piece(completed, piece_index) THEN NoData
    ELSE ReadLoop(files, d, 1, piece_index * piece_length + off, length,
                  Zeros(length), 0)

\* ------------------------------------------------ PieceManager, the rest
\* bitstring.BitArray.tobytes(): MSB-first, zero-padded to whole bytes.
RECURSIVE Pow2(_)
Pow2(n) == IF n = 0 THEN 1 ELSE 2 * Pow2(n - 1)
BitAt(bits, i) == IF i <= Len(bits) THEN bits[i] ELSE 0
RECURSIVE ByteAt(_, _, _)
ByteAt(bits, k, j) ==
    IF j > 7 THEN 0
    ELSE BitAt(bits, 8 * k + j + 1) * Pow2(7 - j) + ByteAt(bits, k, j + 1)
tobytes(bits) == [k \in 1..((Len(bits) + 7) \div 8) |-> ByteAt(bits, k - 1, 0)]

\* The mutable state of the PieceManager as one record.
PM == [disk |-> disk, progress_file |-> progress_file,
       busy_pieces |-> busy_pieces, completed_pieces |-> completed_pieces,
       bitfield |-> bitfield, piece_lock_time |-> piece_lock_time,
       failed_attempts |-> failed_attempts,
       raw_data |-> raw_data, received |-> received]

\* Who made each busy piece busy, after the piece manager has become pm.
Held(pm, h) == [i \in DOMAIN h |-> IF i \in pm.busy_pieces THEN h[i] ELSE 0]
SetHeld(pm, h) ==
    /\ disk' = pm.disk
    /\ progress_file' = pm.progress_file
    /\ busy_pieces' = pm.busy_pieces
    /\ completed_pieces' = pm.completed_pieces
    /\ bitfield' = pm.bitfield
    /\ piece_lock_time' = pm.piece_lock_time
    /\ failed_attempts' = pm.failed_attempts
    /\ raw_data' = pm.raw_data
    /\ received' = pm.received
    /\ holder' = Held(pm, h)
    /\ UNCHANGED output_files
SetPM(pm) == SetHeld(pm, holder)

\* _validate_piece accepting every complete buffer
validate_piece_any(raw, piece_hash) == TRUE
\* PieceManager._validate_piece
validate_piece(raw, piece_hash) == SHA1(raw) = piece_hash

\* PieceManager.release_piece (the `failed` flag only selects a log line
\* and a statistics counter)
release_piece(pm, piece_index) ==
    IF piece_index \in pm.busy_pieces
    THEN [pm EXCEPT !.busy_pieces = @ \ {piece_index},
                    !.piece_lock_time[piece_index] = NoLock]
    ELSE pm

\* PieceManager._save_progress; ok = FALSE when the write raises.
save_progress_skipped(pm, ok) == pm
save_progress(pm, ok) ==
    IF ok THEN [pm EXCEPT !.progress_file = tobytes(pm.bitfield)] ELSE pm

\* recieve_block_piece, branch "piece complete and hash valid"
piece_validated(pm, files, piece_length, piece_index, failing, save_ok) ==
    LET marked  == [pm EXCEPT !.completed_pieces = @ \cup {piece_index},
                              !.bitfield[piece_index + 1] = 1]
        written == [marked EXCEPT !.disk =
                        write_piece_to_files(files, marked.disk, piece_length,
                            piece_index, marked.raw_data[piece_index], failing)]
    IN  save_progress(release_piece(written, piece_index), save_ok)

\* the hash mismatch branch also withdrawing the piece's verified status
hash_mismatch_unverifies(pm, piece_index, piece_length) ==
    [pm EXCEPT !.raw_data[piece_index] = flush(piece_length).raw_data,
               !.received[piece_index] = flush(piece_length).received,
               !.busy_pieces = @ \ {piece_index},
               !.completed_pieces = @ \ {piece_index},
               !.bitfield[piece_index + 1] = 0]
\* recieve_block_piece, branch "hash mismatch"
hash_mismatch(pm, piece_index, piece_length) ==
    [pm EXCEPT !.raw_data[piece_index] = flush(piece_length).raw_data,
               !.received[piece_index] = flush(piece_length).received,
               !.busy_pieces = @ \ {piece_index}]

\* PieceManager.recieve_block_piece: the new state and which branch ran
\* ("Verified" is the `return True`).
recieve_block_piece(pm, files, plist, piece_length, piece_index, off, data,
                    failing, save_ok) ==
    LET piece == add_block([raw_data |-> pm.raw_data[piece_index],
                            received |-> pm.received[piece_index]], off, data)
        added == [pm EXCEPT !.raw_data[piece_index] = piece.raw_data,
                            !.received[piece_index] = piece.received]
    IN  IF is_complete(piece, plist[piece_index + 1].piece_length)
        THEN IF validate_piece(piece.raw_data, plist[piece_index + 1].piece_hash)
             THEN [pm |-> piece_validated(added, files, piece_length,
                                          piece_index, failing, save_ok),
                   result |-> "Verified"]
             ELSE [pm |-> hash_mismatch(added, piece_index,
                                        plist[piece_index + 1].piece_length),
                   result |-> "HashFailed"]
        ELSE [pm |-> added, result |-> "Accepted"]

\* PieceManager.is_complete
pm_is_complete(completed, plist) == Cardinality(completed) = Len(plist)

\* choose_next_piece: does the peer's bitfield show the piece?
NoBitfield == <<-1>>
peer_has(peer_bf, piece_index) ==
    \/ peer_bf = NoBitfield
    \/ /\ piece_index < Len(peer_bf)
       /\ peer_bf[piece_index + 1] = 1

\* choose_next_piece: the candidate list
candidates_with_busy(pm, plist, peer_bf) ==
    {i \in 0..(Len(plist) - 1) :
        /\ plist[i + 1].piece_length > 0
        /\ i \notin pm.completed_pieces
        /\ peer_has(peer_bf, i)}
candidates(pm, plist, peer_bf) ==
    {i \in 0..(Len(plist) - 1) :
        /\ plist[i + 1].piece_length > 0
        /\ i \notin pm.completed_pieces
        /\ i \notin pm.busy_pieces
        /\ peer_has(peer_bf, i)}

\* choose_next_piece, "if not candidates": auto-release of old locks
lock_expired_late(age) == age # NoLock /\ age > 2 * LOCK_TIMEOUT
lock_expired(age) == age # NoLock /\ age > LOCK_TIMEOUT
RECURSIVE release_all(_, _)
release_all(pm, S) ==
    IF S = {} THEN pm
    ELSE LET i == CHOOSE x \in S : TRUE
         IN  release_all(release_piece(pm, i), S \ {i})
sweep_locks(pm) ==
    release_all(pm, {i \in DOMAIN pm.piece_lock_time :
                        lock_expired(pm.piece_lock_time[i])})

\* choose_next_piece, a candidate selected: mark busy with a fresh lock
mark_busy(pm, piece_index) ==
    [pm EXCEPT !.busy_pieces = @ \cup {piece_index},
               !.piece_lock_time[piece_index] = 0]

\* ------------------------------------------------ protocol/message.py
\* Message._build_message_map: message id -> subclass
MessageClass(message_id) ==
    CASE message_id = 0 -> "Choke"
      [] message_id = 1 -> "Unchoke"
      [] message_id = 2 -> "Interested"
      [] message_id = 3 -> "NotInterested"
      [] message_id = 4 -> "Have"
      [] message_id = 5 -> "Bitfield"
      [] message_id = 6 -> "Request"
      [] message_id = 7 -> "Piece"
      [] message_id = 8 -> "Cancel"
      [] message_id = 20 -> "Extended"
      [] OTHER -> "None"

\* <subclass>.deserialize_payload: the class of the object returned.  The
\* subclasses without a deserialize_payload of their own raise inside
\* Message.deserialize, which prints the error and returns None.
ChokePayload == "Unchoke"
DeserializePayload(cls) ==
    CASE cls = "Choke" -> ChokePayload
      [] cls = "Unchoke" -> "Unchoke"
      [] cls = "Interested" -> "Interested"
      [] cls = "Have" -> "Have"
      [] cls = "Bitfield" -> "Bitfield"
      [] cls = "Piece" -> "Piece"
      [] cls = "Extended" -> "Extended"
      [] OTHER -> "None"

\* Message.deserialize
Deserialize(message_id) == DeserializePayload(MessageClass(message_id))

\* The payload length of a well-formed frame of each class (what the
\* class's serialize writes after the message id).
PayloadLength(cls, pieces_count) ==
    CASE cls = "Have" -> 4
      [] cls = "Bitfield" -> (pieces_count + 7) \div 8
      [] cls = "Request" -> 12
      [] cls = "Cancel" -> 12
      [] OTHER -> 0

\* Message.deserialize of a frame with payload_len payload bytes:
\* Have.deserialize_payload raises unless there are 4 (the error is printed
\* and None returned), the other classes never look at the length.
DeserializeFrame(message_id, payload_len) ==
    IF MessageClass(message_id) = "Have" /\ payload_len # 4
    THEN "None"
    ELSE DeserializePayload(MessageClass(message_id))

\* Bitfield.deserialize_payload: bitstring.BitArray(data), 8 bits a byte
BitArray(payload_len, bit) == [i \in 1..(8 * payload_len) |-> bit]

\* -------------------------------------------------------- ghost values
NoEvent == [session |-> 0, piece |-> NoPiece, result |-> "None"]
\* recieve_block_piece ran for session s on piece_index and took branch r
\* ------------------------------------------------ peer exchange
\* TorrentSession._download_loop creates the peer manager with my_ip
\* "0.0.0.0"; OurIp is the address under which trackers and peers know us.
my_ip == "0.0.0.0"
OurIp == "10.0.0.1"
OurAddress == <<OurIp, 6881>>
Endpoints == {<<my_ip, 6881>>, OurAddress, <<"10.0.0.2", 6881>>,
              <<"10.0.0.3", 6881>>, <<"10.0.0.2", 0>>}
NoMessage == {<<"none", 0>>}

\* AsyncPeerManager.__init__: the connection counters of stats; and no Peer
\* object yet, from any source.
NoStats == [connected_from_tracker |-> 0, connected_from_pex |-> 0]
NoSources == [connecting |-> [ep \in Endpoints |-> 0],
              handlers |-> [ep \in Endpoints |-> 0],
              connected |-> [ep \in Endpoints |-> "none"]]
Sources == {"tracker", "pex"}
FromPex(source) == IF source = "pex" THEN 1 ELSE 0

\* _connect_peer, "Update connection stats"
count_connected(st, source) ==
    IF source = "pex"
    THEN [st EXCEPT !.connected_from_pex = @ + 1]
    ELSE [st EXCEPT !.connected_from_tracker = @ + 1]

\* remove_peer and handle_peer's `finally`: "Update stats before removing",
\* for a peer whose endpoint is in connected_peers
count_removed(st, source) ==
    IF source = "pex"
    THEN [st EXCEPT !.connected_from_pex = @ - 1]
    ELSE [st EXCEPT !.connected_from_tracker = @ - 1]

\* add_peer / send_pex_message: "Validate IP and port"
valid_port(port) == port > 0 /\ port <= 65535

\* AsyncPeerManager.add_peer
add_peer(known, ip, port) ==
    IF ip = my_ip THEN known
    ELSE IF ~valid_port(port) THEN known
    ELSE known \cup {<<ip, port>>}

\* AsyncPeerManager.add_peer with source "pex": the entry in pex_peers
add_pex_peer(pex, ip, port) ==
    IF ip = my_ip THEN pex
    ELSE IF ~valid_port(port) THEN pex
    ELSE pex \cup {<<ip, port>>}

\* Peer.process_pex_message: the endpoints taken from an 'added' field
process_pex_message(added) ==
    {ep \in added : ep[1] # "0.0.0.0" /\ valid_port(ep[2])}

\* connect_to_pex_peers: the endpoints it starts add_peer_info for
unconnected_peers(peers_list, connected) == peers_list \ connected

\* share_peers_via_pex: "Don't send a peer its own address"
peer_list(known, peer) == {ep \in known : ep # peer}

\* PEXExtension.send_pex_message: the peers put into 'added' (none: nothing
\* is sent) and the new sent_peers
send_pex_message_again(sent, added_peers, own_ip) ==
    LET new_peers == {ep \in added_peers :
                         /\ ep[1] # own_ip
                         /\ valid_port(ep[2])}
    IN  IF new_peers = {}
        THEN [sent_peers |-> sent, added |-> NoMessage]
        ELSE [sent_peers |-> sent \cup new_peers, added |-> new_peers]
send_pex_message(sent, added_peers, own_ip) ==
    LET new_peers == {ep \in added_peers :
                         /\ ep \notin sent
                         /\ ep[1] # own_ip
                         /\ valid_port(ep[2])}
    IN  IF new_peers = {}
        THEN [sent_peers |-> sent, added |-> NoMessage]
        ELSE [sent_peers |-> sent \cup new_peers, added |-> new_peers]

DeliveryEvent(s, piece_index, r) ==
    [session |-> s, piece |-> piece_index, result |-> r]

Ghosts(e) == event' = e /\ UNCHANGED <<have_sent, choked, gossipvars, announced, task, probe>>

Holding(s) == pc[s] \in {"request", "await"}

\* TorrentSession.task: what self.task refers to, and how many
\* _download_loop tasks have been created and have not ended.  The first
\* start() has created one.
Running == [ref |-> "running", loops |-> 1]
\* asyncio.create_task(self._download_loop())
create_task(t) == [ref |-> "running", loops |-> t.loops + 1]
\* start creating a download loop whatever self.task is
start_task_always(t) == create_task(t)
\* start: "if not self.task or self.task.done()"
start_task(t) == IF t.ref # "running" THEN create_task(t) ELSE t
\* the task self.task refers to returns or is cancelled
task_done(t) ==
    IF t.ref = "running" THEN [ref |-> "done", loops |-> t.loops - 1] ELSE t

\* -------------------------------------------------------------- Init
\* PieceManager.__init__ and the start of a session, but for the files on
\* disk it finds: _pre_allocate_files opens every output file with 'wb'.
InitFresh ==
    /\ output_files = PreAllocate(torrent)
    /\ disk = [i \in 1..Len(PreAllocate(torrent)) |-> Zeros(PreAllocate(torrent)[i].length)]
    /\ busy_pieces = {}
    /\ completed_pieces = {}
    /\ bitfield = Zeros(NumberOfPiecesOf(torrent))
    /\ piece_lock_time = [i \in 0..(Len(GeneratePieces(torrent)) - 1) |-> NoLock]
    /\ failed_attempts = [i \in 0..(Len(GeneratePieces(torrent)) - 1) |-> 0]
    /\ holder = [i \in 0..(Len(GeneratePieces(torrent)) - 1) |-> 0]
    /\ raw_data = [i \in 0..(Len(GeneratePieces(torrent)) - 1) |->
                      Zeros(GeneratePieces(torrent)[i + 1].piece_length)]
    /\ received = [i \in 0..(Len(GeneratePieces(torrent)) - 1) |-> EmptyReceived]
    /\ connected_peers = {}
    /\ session_state = DOWNLOADING
    /\ pc = [s \in Sessions |-> "idle"]
    /\ peer_choking = [s \in Sessions |-> TRUE]
    /\ peer_bitfield = [s \in Sessions |-> NoBitfield]
    /\ next_piece = [s \in Sessions |-> NoPiece]
    /\ offset = [s \in Sessions |-> 0]
    /\ retries = [s \in Sessions |-> 0]
    /\ cur_piece_length = [s \in Sessions |-> 0]
    /\ failure_count = [s \in Sessions |-> 0]
    /\ writer_closed = [s \in Sessions |-> FALSE]
    /\ have_sent = [i \in 0..(NumberOfPiecesOf(torrent) - 1) |-> 0]
    /\ choked = [s \in Sessions |-> TRUE]
    /\ known_peers = {}
    /\ registry = {}
    /\ connecting = [ep \in Endpoints |-> 0]
    /\ handlers = [ep \in Endpoints |-> 0]
    /\ sent_peers = [ep \in Endpoints |-> {}]
    /\ pex_added = [ep \in Endpoints |-> NoMessage]
    /\ peer_source = NoSources
    /\ stats = NoStats
    /\ pex_peers = {}
    /\ pex_times = [ep \in Endpoints |-> [e \in Endpoints |-> 0]]
    /\ announced = <<>>
    /\ task = Running
    /\ event = NoEvent
InitRest == progress_file = <<>> /\ InitFresh /\ probe = NoProbe
Init == torrent \in Torrents /\ InitRest

\* ------------------------------------------------- network/peer.py
\* AsyncPeerManager.add_peer_info / _connect_peer / Peer.connect: a healthy
\* peer enters the registry and its handle_peer task starts (Interested is
\* sent); an unhealthy one is skipped.
Connect(s, healthy) ==
    /\ pc[s] = "idle"
    /\ session_state = DOWNLOADING
    /\ IF healthy
       THEN /\ connected_peers' = connected_peers \cup {s}
            /\ pc' = [pc EXCEPT ![s] = "wait_unchoke"]
       ELSE /\ pc' = [pc EXCEPT ![s] = "done"]
            /\ UNCHANGED connected_peers
    /\ UNCHANGED <<torrent, pmvars, session_state, peer_choking, peer_bitfield,
                   next_piece, offset, retries, cur_piece_length, failure_count,
                   writer_closed>>
    /\ Ghosts(NoEvent)

\* Peer.connect: open_connection, _send_handshake, _recv_handshake (exactly
\* 68 bytes or an exception) and _parse_handshake, which takes the reply
\* apart and compares nothing; any exception makes the peer unhealthy.
OurInfoHash == "info_hash"
OtherInfoHash == "other_info_hash"
NoHandshake == [info_hash |-> "none"]
Handshake(h) == [info_hash |-> h]
parse_handshake(response) == [info_hash |-> response.info_hash]
connect(response) ==
    IF response = NoHandshake
    THEN [healthy |-> FALSE]
    ELSE [healthy |-> TRUE, parsed_response |-> parse_handshake(response)]
\* add_peer_info: Peer.connect with the peer's reply, then _connect_peer
PeerConnect(s, response) == Connect(s, connect(response).healthy)

\* Peer.handle_have
handle_have(peer_bf, index) ==
    LET bf == IF peer_bf = NoBitfield THEN Zeros(number_of_pieces) ELSE peer_bf
    IN  [bf EXCEPT ![index + 1] = 1]

\* Peer.listen_for_messages / process_peer_messages: one frame with the given
\* message id is read, deserialized and dispatched (Unchoke -> handle_unchoke,
\* Choke -> handle_choke, Bitfield, Have).  bits is the payload of a Bitfield frame,
\* index the payload of a Have frame.
RecvFrame(s, message_id, bits, index) ==
    /\ pc[s] \notin {"idle", "done"}
    /\ ~writer_closed[s]
    /\ LET msg == Deserialize(message_id)
       IN  /\ peer_choking' =
                 IF msg = "Unchoke" THEN [peer_choking EXCEPT ![s] = FALSE]
                 ELSE IF msg = "Choke" THEN [peer_choking EXCEPT ![s] = TRUE]
                 ELSE peer_choking
           /\ peer_bitfield' =
                 IF msg = "Bitfield" THEN [peer_bitfield EXCEPT ![s] = bits]
                 ELSE IF msg = "Have"
                      THEN [peer_bitfield EXCEPT ![s] = handle_have(@, index)]
                      ELSE peer_bitfield
    /\ choked' = IF message_id \in {0, 1}
                 THEN [choked EXCEPT ![s] = (message_id = 0)]
                 ELSE choked
    /\ UNCHANGED <<torrent, pmvars, connected_peers, session_state, pc,
                   next_piece, offset, retries, cur_piece_length, failure_count,
                   writer_closed>>
    /\ event' = NoEvent
    /\ UNCHANGED <<have_sent, gossipvars, announced, task, probe>>

\* listen_for_messages / process_peer_messages for a frame whose payload
\* length is not the one of its message id: whatever Message.deserialize
\* returns is dispatched as for any frame, and the loop reads on.
MalformedEvent(s) == [session |-> s, piece |-> NoPiece, result |-> "Malformed"]
RecvBadFrame(s, message_id, payload_len, bit) ==
    /\ pc[s] \notin {"idle", "done"}
    /\ ~writer_closed[s]
    /\ payload_len # PayloadLength(MessageClass(message_id), number_of_pieces)
    /\ LET msg == DeserializeFrame(message_id, payload_len)
       IN  /\ peer_choking' =
                 IF msg = "Unchoke" THEN [peer_choking EXCEPT ![s] = FALSE]
                 ELSE IF msg = "Choke" THEN [peer_choking EXCEPT ![s] = TRUE]
                 ELSE peer_choking
           /\ peer_bitfield' =
                 IF msg = "Bitfield"
                 THEN [peer_bitfield EXCEPT ![s] = BitArray(payload_len, bit)]
                 ELSE peer_bitfield
    /\ UNCHANGED <<torrent, pmvars, connected_peers, session_state, pc,
                   next_piece, offset, retries, cur_piece_length, failure_count,
                   writer_closed>>
    /\ event' = MalformedEvent(s)
    /\ UNCHANGED <<have_sent, choked, gossipvars, announced, task, probe>>

\* The remote end closes the connection: the writer is closing from now on
\* and every send raises.
PeerDisconnect(s) ==
    /\ pc[s] \notin {"idle", "done"}
    /\ ~writer_closed[s]
    /\ writer_closed' = [writer_closed EXCEPT ![s] = TRUE]
    /\ UNCHANGED <<torrent, pmvars, connected_peers, session_state, pc,
                   peer_choking, peer_bitfield, next_piece, offset, retries,
                   cur_piece_length, failure_count>>
    /\ Ghosts(NoEvent)

\* ------------------------------------------- network/peer_manager.py
\* handle_peer, the `finally` block: the endpoint leaves the registry.
Finally(s) == connected_peers' = connected_peers \ {s}

ResetDownload(s) ==
    /\ next_piece' = [next_piece EXCEPT ![s] = NoPiece]
    /\ offset' = [offset EXCEPT ![s] = 0]
    /\ retries' = [retries EXCEPT ![s] = 0]
    /\ cur_piece_length' = [cur_piece_length EXCEPT ![s] = 0]

\* handle_peer, the unchoke wait: the peer has unchoked us.  With a bitfield
\* the loop is left at once, without one full availability is assumed.
WaitUnchoke(s) ==
    /\ pc[s] = "wait_unchoke"
    /\ ~peer_choking[s]
    /\ peer_bitfield' =
          IF peer_bitfield[s] = NoBitfield
          THEN [peer_bitfield EXCEPT ![s] = [i \in 1..number_of_pieces |-> 1]]
          ELSE peer_bitfield
    /\ pc' = [pc EXCEPT ![s] = "loop"]
    /\ UNCHANGED <<torrent, pmvars, connected_peers, session_state, peer_choking,
                   next_piece, offset, retries, cur_piece_length, failure_count,
                   writer_closed>>
    /\ Ghosts(NoEvent)

\* Peer.disconnect: closes the connection.
disconnect(closed, s) == [closed EXCEPT ![s] = TRUE]

\* handle_peer, the unchoke wait ended (10 s passed, or resending Interested
\* raised).  A peer still choking is removed (remove_peer: disconnect, leave
\* the registry) and the task returns; otherwise the download loop starts.
UnchokeTimeout_keeps_choking_peer(s) ==
    /\ pc[s] = "wait_unchoke"
    /\ pc' = [pc EXCEPT ![s] = "loop"]
    /\ UNCHANGED <<writer_closed, connected_peers>>
    /\ UNCHANGED <<torrent, pmvars, session_state, peer_choking, peer_bitfield,
                   next_piece, offset, retries, cur_piece_length, failure_count>>
    /\ Ghosts(NoEvent)
UnchokeTimeout(s) ==
    /\ pc[s] = "wait_unchoke"
    /\ IF peer_choking[s]
       THEN /\ pc' = [pc EXCEPT ![s] = "done"]
            /\ writer_closed' = disconnect(writer_closed, s)
            /\ Finally(s)
       ELSE /\ pc' = [pc EXCEPT ![s] = "loop"]
            /\ UNCHANGED <<writer_closed, connected_peers>>
    /\ UNCHANGED <<torrent, pmvars, session_state, peer_choking, peer_bitfield,
                   next_piece, offset, retries, cur_piece_length, failure_count>>
    /\ Ghosts(NoEvent)

\* handle_peer, top of the download loop: the session is COMPLETED or
\* STOPPED, or the peer is choking and resending Interested raises on the
\* closed writer; the task ends through `finally`.
LoopExit(s) ==
    /\ pc[s] = "loop"
    /\ \/ session_state \in {COMPLETED, STOPPED}
       \/ session_state = DOWNLOADING /\ peer_choking[s] /\ writer_closed[s]
    /\ pc' = [pc EXCEPT ![s] = "done"]
    /\ Finally(s)
    /\ UNCHANGED <<torrent, pmvars, session_state, peer_choking, peer_bitfield,
                   next_piece, offset, retries, cur_piece_length, failure_count,
                   writer_closed>>
    /\ Ghosts(NoEvent)

\* handle_peer: choose_next_piece(peer.bitfield).  Without a candidate the
\* old locks are swept and the task sleeps; with one (the weighted draw can
\* return any candidate) the piece is marked busy and async_download_piece
\* starts at offset 0.
ChoosePiece(s) ==
    /\ pc[s] = "loop"
    /\ session_state = DOWNLOADING
    /\ ~peer_choking[s]
    /\ LET cands == candidates(PM, pieces, peer_bitfield[s])
       IN  IF cands = {}
           THEN /\ SetPM(sweep_locks(PM))
                /\ UNCHANGED <<pc, next_piece, offset, retries, cur_piece_length>>
           ELSE \E piece_index \in cands :
                /\ SetHeld(mark_busy(PM, piece_index),
                           [holder EXCEPT ![piece_index] = s])
                /\ pc' = [pc EXCEPT ![s] = "request"]
                /\ next_piece' = [next_piece EXCEPT ![s] = piece_index]
                /\ offset' = [offset EXCEPT ![s] = 0]
                /\ retries' = [retries EXCEPT ![s] = 0]
                /\ cur_piece_length' = [cur_piece_length EXCEPT ![s] = 0]
    /\ UNCHANGED <<torrent, connected_peers, session_state, peer_choking,
                   peer_bitfield, failure_count, writer_closed>>
    /\ Ghosts(NoEvent)

\* handle_peer after async_download_piece returned: success resets
\* failure_count; failure releases the piece, counts, and at max_failures
\* leaves the loop (and the registry, in `finally`).
AfterFailure(count) == count + 1
GivesUp(count) == count >= max_failures
DownloadReturns(s, pm, success) ==
    /\ IF success
       THEN /\ SetPM(pm)
            /\ failure_count' = [failure_count EXCEPT ![s] = 0]
            /\ pc' = [pc EXCEPT ![s] = "loop"]
            /\ UNCHANGED connected_peers
       ELSE /\ SetPM(release_piece(pm, next_piece[s]))
            /\ failure_count' = [failure_count EXCEPT ![s] = AfterFailure(@)]
            /\ IF GivesUp(AfterFailure(failure_count[s]))
               THEN pc' = [pc EXCEPT ![s] = "done"] /\ Finally(s)
               ELSE pc' = [pc EXCEPT ![s] = "loop"] /\ UNCHANGED connected_peers
    /\ ResetDownload(s)

\* async_download_piece: a try of the current block failed (request raised,
\* reply timed out, reply empty): retries += 1, and at MAX_RETRIES the
\* download returns False.
BlockRetry(s) ==
    IF retries[s] + 1 >= MAX_RETRIES
    THEN DownloadReturns(s, PM, FALSE)
    ELSE /\ retries' = [retries EXCEPT ![s] = @ + 1]
         /\ pc' = [pc EXCEPT ![s] = "request"]
         /\ SetPM(PM)
         /\ UNCHANGED <<connected_peers, next_piece, offset, cur_piece_length,
                        failure_count>>

\* async_download_piece: peer.request_piece(piece_index, offset, length)
RequestBlock(s) ==
    /\ pc[s] = "request"
    /\ IF writer_closed[s]
       THEN BlockRetry(s)
       ELSE /\ pc' = [pc EXCEPT ![s] = "await"]
            /\ SetPM(PM)
            /\ UNCHANGED <<connected_peers, next_piece, offset, retries,
                           cur_piece_length, failure_count>>
    /\ UNCHANGED <<torrent, session_state, peer_choking, peer_bitfield,
                   writer_closed>>
    /\ Ghosts(NoEvent)

\* async_download_piece: get_piece_message timed out or the block was empty
BlockTimeout(s) ==
    /\ pc[s] = "await"
    /\ BlockRetry(s)
    /\ UNCHANGED <<torrent, session_state, peer_choking, peer_bitfield,
                   writer_closed>>
    /\ Ghosts(NoEvent)

\* The block a peer sends for (piece_index, off): the torrent's bytes, or
\* bytes that are not the torrent's.
BlockLength(piece_index, off) == Min(BLOCK_SIZE, PieceLen(piece_index) - off)
GoodBlock(piece_index, off) ==
    PySlice(Content, piece_index * torrent.piece_length + off,
            piece_index * torrent.piece_length + off + BlockLength(piece_index, off))
BadBlock(piece_index, off) == [i \in 1..BlockLength(piece_index, off) |-> BadByte]

\* async_download_piece: the matching Piece message arrived; handle_piece
\* passes it to recieve_block_piece.  More blocks: next offset (or return
\* False when the session is PAUSED).  Last block: return whether the piece
\* is in completed_pieces.
ReceiveBlock(s, good, failing, save_ok) ==
    /\ pc[s] = "await"
    /\ LET piece_index == next_piece[s]
           data == IF good THEN GoodBlock(piece_index, offset[s])
                   ELSE BadBlock(piece_index, offset[s])
           r == recieve_block_piece(PM, output_files, pieces, torrent.piece_length,
                                    piece_index, offset[s], data, failing, save_ok)
           cur == cur_piece_length[s] + Len(data)
       IN  /\ IF offset[s] + BLOCK_SIZE < PieceLen(piece_index)
              THEN IF session_state = PAUSED
                   THEN DownloadReturns(s, r.pm, FALSE)
                   ELSE /\ SetPM(r.pm)
                        /\ offset' = [offset EXCEPT ![s] = @ + BLOCK_SIZE]
                        /\ retries' = [retries EXCEPT ![s] = 0]
                        /\ cur_piece_length' = [cur_piece_length EXCEPT ![s] = cur]
                        /\ pc' = [pc EXCEPT ![s] = "request"]
                        /\ UNCHANGED <<connected_peers, next_piece, failure_count>>
              ELSE DownloadReturns(s, r.pm,
                       cur >= PieceLen(piece_index)
                       /\ piece_index \in r.pm.completed_pieces)
           /\ Ghosts(DeliveryEvent(s, piece_index, r.result))
    /\ UNCHANGED <<torrent, session_state, peer_choking, peer_bitfield,
                   writer_closed>>

\* ------------------------------------------------------------ time
\* Time passes: every lock gets TickSeconds older (ages saturate just above
\* LOCK_TIMEOUT, where choose_next_piece no longer tells them apart).
Older(age) == IF age = NoLock THEN NoLock
              ELSE Min(age + TickSeconds, LOCK_TIMEOUT + 1)
Tick ==
    /\ \E i \in DOMAIN piece_lock_time : Older(piece_lock_time[i]) # piece_lock_time[i]
    /\ piece_lock_time' = [i \in DOMAIN piece_lock_time |-> Older(piece_lock_time[i])]
    /\ UNCHANGED <<torrent, output_files, disk, progress_file, busy_pieces,
                   completed_pieces, bitfield, failed_attempts, raw_data, received,
                   holder, connected_peers, session_state, peervars>>
    /\ Ghosts(NoEvent)

\* ------------------------------------------------------ session loops
\* main.py, async_main: "Clean up disconnected peers".  The registry entry of
\* a peer whose writer is closing is deleted; its handle_peer task (the same
\* loop as in network/peer_manager.py) is not stopped.
Reap ==
    /\ \E s \in connected_peers : writer_closed[s]
    /\ connected_peers' = {s \in connected_peers : ~writer_closed[s]}
    /\ UNCHANGED <<torrent, pmvars, session_state, peervars>>
    /\ Ghosts(NoEvent)

\* TorrentSession._download_loop: the download is complete; the state
\* becomes COMPLETED, every connected peer's writer is closed and "completed"
\* is sent to the tracker.
CheckComplete ==
    /\ session_state = DOWNLOADING
    /\ pm_is_complete(completed_pieces, pieces)
    /\ session_state' = COMPLETED
    /\ writer_closed' = [s \in Sessions |->
                            IF s \in connected_peers THEN TRUE ELSE writer_closed[s]]
    /\ UNCHANGED <<torrent, pmvars, connected_peers, pc, peer_choking,
                   peer_bitfield, next_piece, offset, retries, cur_piece_length,
                   failure_count>>
    /\ announced' = Append(announced, "completed")
    /\ task' = task_done(task)
    /\ event' = NoEvent
    /\ UNCHANGED <<have_sent, choked, gossipvars, probe>>

\* TorrentSession.stop: should_stop is set and the download task cancelled
\* at once; the CancelledError leaves _download_loop at its current await,
\* past the clean shutdown (it is no Exception), and the state is STOPPED.
stop ==
    /\ \A s \in Sessions : pc[s] # "request"
    /\ session_state \in {DOWNLOADING, PAUSED}
    /\ session_state' = STOPPED
    /\ task' = task_done(task)
    /\ UNCHANGED <<torrent, pmvars, connected_peers, peervars>>
    /\ event' = NoEvent
    /\ UNCHANGED <<have_sent, choked, gossipvars, announced, probe>>

\* ------------------------------------------------------------- Next
FullBitfield == [i \in 1..number_of_pieces |-> 1]
Bitfields == [1..number_of_pieces -> {0, 1}]

\* The swarm.  Session 1 runs against an arbitrary peer: it may unchoke,
\* announce its pieces, answer a request with the right or with wrong bytes,
\* or not answer (Choke frames, which Message.deserialize turns into Unchoke
\* objects, are sent in SoloSpec).  Session 2 runs against a seed: whatever it sends
\* for a request is the right block.  Storage works.
Seed == 2
Next ==
    \/ \E s \in Sessions, response \in {NoHandshake, Handshake(OurInfoHash)} :
          PeerConnect(s, response)
    \/ \E s \in Sessions, message_id \in {1, 5} :
            RecvFrame(s, message_id, FullBitfield, 0)
    \/ \E s \in Sessions : WaitUnchoke(s)
    \/ \E s \in Sessions : UnchokeTimeout(s)
    \/ \E s \in Sessions : LoopExit(s)
    \/ \E s \in Sessions : ChoosePiece(s)
    \/ \E s \in Sessions : RequestBlock(s)
    \/ \E s \in Sessions \ {Seed} : BlockTimeout(s)
    \/ \E s \in Sessions, good \in BOOLEAN :
            (s = Seed => good) /\ ReceiveBlock(s, good, {}, TRUE)
    \/ Tick
    \/ CheckComplete

Spec == Init /\ [][Next]_vars

\* One session against an arbitrary peer, with everything that can go wrong
\* around it: the connection may drop and be reaped, any frame may arrive,
\* a file write or the progress save may fail.
Solo == 1
SoloNext ==
    \/ \E response \in {NoHandshake, Handshake(OurInfoHash), Handshake(OtherInfoHash)} :
          PeerConnect(Solo, response)
    \/ \E message_id \in {0, 1, 4, 5}, bits \in Bitfields,
          index \in 0..(number_of_pieces - 1) :
            /\ message_id # 5 => bits = FullBitfield
            /\ message_id # 4 => index = 0
            /\ RecvFrame(Solo, message_id, bits, index)
    \/ PeerDisconnect(Solo)
    \/ WaitUnchoke(Solo)
    \/ UnchokeTimeout(Solo)
    \/ LoopExit(Solo)
    \/ ChoosePiece(Solo)
    \/ RequestBlock(Solo)
    \/ BlockTimeout(Solo)
    \/ \E good \in BOOLEAN, failing \in SUBSET (1..Len(output_files)),
          save_ok \in BOOLEAN : ReceiveBlock(Solo, good, failing, save_ok)
    \/ Tick
    \/ Reap
    \/ CheckComplete
    \/ stop

SoloSpec == Init /\ [][SoloNext]_vars

\* ------------------------------------------------------ piece buffer
\* One Piece of PIECE_LENGTH bytes on its own: blocks that lie within the
\* piece are added in any order, repeated or overlapping, and the piece is
\* flushed.
Blocks ==
    {<<off, data>> : off \in Offsets,
                     data \in UNION {[1..n -> Bytes] : n \in 1..PIECE_LENGTH}}
ProbeAddBlock(off, data) ==
    /\ off + Len(data) <= PIECE_LENGTH
    /\ probe' = [raw_data |-> add_block(probe, off, data).raw_data,
                 received |-> add_block(probe, off, data).received,
                 covered |-> probe.covered \cup (off..(off + Len(data) - 1)),
                 last |-> <<off, data>>,
                 repeated |-> (probe.last = <<off, data>>)]
    /\ UNCHANGED <<torrent, pmvars, connected_peers, session_state, peervars,
                   have_sent, choked, gossipvars, announced, task>>
    /\ event' = NoEvent
ProbeFlush ==
    /\ probe' = [NewPiece(PIECE_LENGTH) EXCEPT
                    !.raw_data = flush(PIECE_LENGTH).raw_data,
                    !.received = flush(PIECE_LENGTH).received]
    /\ UNCHANGED <<torrent, pmvars, connected_peers, session_state, peervars,
                   have_sent, choked, gossipvars, announced, task>>
    /\ event' = NoEvent

PieceInit ==
    /\ torrent = SingleFileTorrent
    /\ progress_file = <<>>
    /\ InitFresh
    /\ probe = NewPiece(PIECE_LENGTH)
PieceNext ==
    \/ \E b \in Blocks : ProbeAddBlock(b[1], b[2])
    \/ ProbeFlush
PieceSpec == PieceInit /\ [][PieceNext]_vars

\* ------------------------------------------------ choose_next_piece
\* choose_next_piece on its own: two sessions in their download loop, with
\* every combination of completed and busy pieces, lock ages and peer
\* bitfields (None where no bitfield is passed) that a swarm can leave.
LockAges == {0, Min(TickSeconds, LOCK_TIMEOUT + 1), LOCK_TIMEOUT + 1}
ChooseInit ==
    /\ torrent = SingleFileTorrent
    /\ output_files = PreAllocate(torrent)
    /\ busy_pieces \in SUBSET (0..(Len(GeneratePieces(torrent)) - 1))
    /\ completed_pieces \in SUBSET ((0..(Len(GeneratePieces(torrent)) - 1)) \ busy_pieces)
    /\ disk = <<[k \in 1..Len(Content) |->
                    IF ((k - 1) \div PIECE_LENGTH) \in completed_pieces
                    THEN Content[k] ELSE 0]>>
    /\ bitfield = [i \in 1..NumberOfPiecesOf(torrent) |->
                      IF (i - 1) \in completed_pieces THEN 1 ELSE 0]
    /\ piece_lock_time \in
          {f \in [0..(Len(GeneratePieces(torrent)) - 1) -> LockAges \cup {NoLock}] :
              \A i \in busy_pieces : f[i] # NoLock}
    /\ failed_attempts = [i \in 0..(Len(GeneratePieces(torrent)) - 1) |-> 0]
    /\ holder = [i \in 0..(Len(GeneratePieces(torrent)) - 1) |-> 0]
    /\ raw_data = [i \in 0..(Len(GeneratePieces(torrent)) - 1) |->
                      Zeros(GeneratePieces(torrent)[i + 1].piece_length)]
    /\ received = [i \in 0..(Len(GeneratePieces(torrent)) - 1) |-> EmptyReceived]
    /\ connected_peers = Sessions
    /\ session_state = DOWNLOADING
    /\ pc = [s \in Sessions |-> "loop"]
    /\ peer_choking = [s \in Sessions |-> FALSE]
    /\ peer_bitfield \in [Sessions -> Bitfields \cup {NoBitfield}]
    /\ next_piece = [s \in Sessions |-> NoPiece]
    /\ offset = [s \in Sessions |-> 0]
    /\ retries = [s \in Sessions |-> 0]
    /\ cur_piece_length = [s \in Sessions |-> 0]
    /\ failure_count = [s \in Sessions |-> 0]
    /\ writer_closed = [s \in Sessions |-> FALSE]
    /\ have_sent = [i \in 0..(NumberOfPiecesOf(torrent) - 1) |-> 0]
    /\ choked = [s \in Sessions |-> FALSE]
    /\ known_peers = {}
    /\ registry = {}
    /\ connecting = [ep \in Endpoints |-> 0]
    /\ handlers = [ep \in Endpoints |-> 0]
    /\ sent_peers = [ep \in Endpoints |-> {}]
    /\ pex_added = [ep \in Endpoints |-> NoMessage]
    /\ peer_source = NoSources
    /\ stats = NoStats
    /\ pex_peers = {}
    /\ pex_times = [ep \in Endpoints |-> [e \in Endpoints |-> 0]]
    /\ announced = <<>>
    /\ task = Running
    /\ event = NoEvent
    /\ progress_file = IF completed_pieces = {} THEN <<>> ELSE tobytes(bitfield)
    /\ probe = NoProbe

ChooseNext ==
    \/ \E s \in Sessions : ChoosePiece(s)
    \/ Tick

ChooseSpec == ChooseInit /\ [][ChooseNext]_vars

\* ------------------------------------------------ crash and restart
\* The client stops at any point and is started again on the same download
\* directory: TorrentSession.start builds a new PieceManager.  The output
\* files are truncated and zero-extended by _pre_allocate_files, the
\* <name>.progress file is left as it is (nothing reads it), and
\* _load_completed_pieces asks is_piece_downloaded, which looks the piece up
\* in the still empty completed_pieces.
Restart ==
    /\ torrent' = torrent
    /\ progress_file' = progress_file
    /\ probe' = probe
    /\ output_files' = PreAllocate(torrent)
    /\ disk' = [i \in 1..Len(PreAllocate(torrent)) |-> Zeros(PreAllocate(torrent)[i].length)]
    /\ busy_pieces' = {}
    /\ completed_pieces' = {}
    /\ bitfield' = Zeros(NumberOfPiecesOf(torrent))
    /\ piece_lock_time' = [i \in 0..(Len(GeneratePieces(torrent)) - 1) |-> NoLock]
    /\ failed_attempts' = [i \in 0..(Len(GeneratePieces(torrent)) - 1) |-> 0]
    /\ holder' = [i \in 0..(Len(GeneratePieces(torrent)) - 1) |-> 0]
    /\ raw_data' = [i \in 0..(Len(GeneratePieces(torrent)) - 1) |->
                      Zeros(GeneratePieces(torrent)[i + 1].piece_length)]
    /\ received' = [i \in 0..(Len(GeneratePieces(torrent)) - 1) |-> EmptyReceived]
    /\ connected_peers' = {}
    /\ session_state' = DOWNLOADING
    /\ pc' = [s \in Sessions |-> "idle"]
    /\ peer_choking' = [s \in Sessions |-> TRUE]
    /\ peer_bitfield' = [s \in Sessions |-> NoBitfield]
    /\ next_piece' = [s \in Sessions |-> NoPiece]
    /\ offset' = [s \in Sessions |-> 0]
    /\ retries' = [s \in Sessions |-> 0]
    /\ cur_piece_length' = [s \in Sessions |-> 0]
    /\ failure_count' = [s \in Sessions |-> 0]
    /\ writer_closed' = [s \in Sessions |-> FALSE]
    /\ have_sent' = [i \in 0..(NumberOfPiecesOf(torrent) - 1) |-> 0]
    /\ choked' = [s \in Sessions |-> TRUE]
    /\ known_peers' = {}
    /\ registry' = {}
    /\ connecting' = [ep \in Endpoints |-> 0]
    /\ handlers' = [ep \in Endpoints |-> 0]
    /\ sent_peers' = [ep \in Endpoints |-> {}]
    /\ pex_added' = [ep \in Endpoints |-> NoMessage]
    /\ peer_source' = NoSources
    /\ stats' = NoStats
    /\ pex_peers' = {}
    /\ pex_times' = [ep \in Endpoints |-> [e \in Endpoints |-> 0]]
    /\ announced' = <<>>
    /\ task' = Running
    /\ event' = NoEvent

\* One session with a peer that may serve a block, well or badly, and restarts.
RestartNext ==
    \/ PeerConnect(Solo, Handshake(OurInfoHash))
    \/ RecvFrame(Solo, 1, FullBitfield, 0)
    \/ WaitUnchoke(Solo)
    \/ ChoosePiece(Solo)
    \/ RequestBlock(Solo)
    \/ \E good \in BOOLEAN : ReceiveBlock(Solo, good, {}, TRUE)
    \/ BlockTimeout(Solo)
    \/ LoopExit(Solo)
    \/ Tick
    \/ CheckComplete
    \/ Restart

RestartSpec == Init /\ [][RestartNext]_vars

\* ------------------------------------------------------ the storage
\* _write_piece_to_files and get_piece_block on their own, for every way of
\* laying the torrent's bytes out in files and every piece content.
Layouts == {<<Len(Content)>>, <<1, Len(Content) - 1>>, <<Len(Content) - 1, 1>>,
            <<1, 1, Len(Content) - 2>>}
StorageTorrents ==
    {[files |-> L,
      file_length |-> IF Len(L) = 1 THEN L[1] ELSE 0,
      piece_length |-> PIECE_LENGTH,
      total_pieces |-> (Len(Content) + PIECE_LENGTH - 1) \div PIECE_LENGTH] :
        L \in Layouts}
PiecesOfLength(n) == [1..n -> Bytes]
WrittenEvent(piece_index, piece_data) ==
    [session |-> 0, piece |-> piece_index, result |-> "Written",
     data |-> piece_data]

\* recieve_block_piece after a successful validation, the storage part: the
\* piece is marked completed and _write_piece_to_files puts it on disk.
StoreWrite(piece_index, piece_data) ==
    /\ completed_pieces' = completed_pieces \cup {piece_index}
    /\ disk' = write_piece_to_files(output_files, disk, torrent.piece_length,
                                    piece_index, piece_data, {})
    /\ event' = WrittenEvent(piece_index, piece_data)
    /\ UNCHANGED <<torrent, output_files, progress_file, busy_pieces, bitfield,
                   piece_lock_time, failed_attempts, raw_data, received, holder,
                   connected_peers, session_state, peervars, have_sent, choked,
                   gossipvars, announced, task, probe>>

StorageNext ==
    \E piece_index \in 0..(torrent.total_pieces - 1) :
        \E piece_data \in PiecesOfLength(
                Min(torrent.piece_length,
                    Len(Content) - piece_index * torrent.piece_length)) :
            StoreWrite(piece_index, piece_data)

StorageInit == torrent \in StorageTorrents /\ InitRest
StorageSpec == StorageInit /\ [][StorageNext]_vars

\* ------------------------------------------------ session control
\* TorrentSession.pause: DOWNLOADING becomes PAUSED, any other state stays.
\* The call runs where the tasks of the event loop yield; a peer session
\* that has chosen a piece, taken a block or counted a timeout sends its next
\* request without yielding, so pause does not fall in between.
pause ==
    /\ \A s \in Sessions : pc[s] # "request"
    /\ session_state' = IF session_state = DOWNLOADING THEN PAUSED ELSE session_state
    /\ UNCHANGED <<torrent, pmvars, connected_peers, peervars>>
    /\ Ghosts([NoEvent EXCEPT !.result = "pause"])

\* TorrentSession.start: nothing on a session that is DOWNLOADING; otherwise
\* the state is DOWNLOADING again and the PieceManager is kept.  When the
\* download loop is running (PAUSED) nothing is created; when it has ended, a
\* new loop starts with a new AsyncPeerManager, whose connected_peers is
\* empty.  The handle_peer tasks of the old peer manager are not touched.
start ==
    /\ \A s \in Sessions : pc[s] # "request"
    /\ IF session_state = DOWNLOADING
       THEN UNCHANGED <<session_state, task, connected_peers>>
       ELSE /\ session_state' = DOWNLOADING
            /\ task' = start_task(task)
            /\ connected_peers' = IF start_task(task) = task THEN connected_peers ELSE {}
    /\ UNCHANGED <<torrent, pmvars, peervars>>
    /\ event' = [NoEvent EXCEPT !.result = "start"]
    /\ UNCHANGED <<have_sent, choked, gossipvars, announced, probe>>

\* One peer session, its peer serving blocks well, badly or not at all,
\* under the calls of the session's controls (start at most until the
\* download has been announced as completed MaxRuns times).
ControlNext ==
    \/ PeerConnect(Solo, Handshake(OurInfoHash))
    \/ RecvFrame(Solo, 1, FullBitfield, 0)
    \/ WaitUnchoke(Solo)
    \/ ChoosePiece(Solo)
    \/ RequestBlock(Solo)
    \/ \E good \in BOOLEAN : ReceiveBlock(Solo, good, {}, TRUE)
    \/ BlockTimeout(Solo)
    \/ LoopExit(Solo)
    \/ Tick
    \/ CheckComplete
    \/ pause
    \/ Len(announced) < MaxRuns /\ start
    \/ stop
ControlSpec == Init /\ [][ControlNext]_vars

\* ------------------------------------------------ frames
\* One peer session and the frames its peer sends, well-formed or not.
BadLengths == {0, 1, 2, 3, 5}
FrameNext ==
    \/ \E response \in {Handshake(OurInfoHash), NoHandshake} : PeerConnect(Solo, response)
    \/ \E message_id \in {0, 1, 4, 5}, bits \in Bitfields, index \in 0..(number_of_pieces - 1) :
          RecvFrame(Solo, message_id, bits, index)
    \/ \E message_id \in {0, 1, 4, 5}, payload_len \in BadLengths, bit \in {0, 1} :
          RecvBadFrame(Solo, message_id, payload_len, bit)
    \/ WaitUnchoke(Solo)
    \/ UnchokeTimeout(Solo)
    \/ PeerDisconnect(Solo)
FrameSpec == Init /\ [][FrameNext]_vars

\* ------------------------------------------------ peers and gossip
\* The peer manager's book-keeping of endpoints: the tracker's list, PEX
\* messages coming in, connection attempts ending, sessions ending, and the
\* gossip rounds of the download loop.
MainUnchanged ==
    /\ UNCHANGED <<torrent, pmvars, connected_peers, session_state, peervars,
                   have_sent, choked, announced, task, probe>>
    /\ event' = NoEvent
Tasks == SumValues(connecting, Endpoints) + SumValues(handlers, Endpoints)

\* AsyncPeerManager.add_peer_info up to the call of _connect_peer: a new Peer
\* is created and connected to, whatever is known or connected already.
add_peer_info(known, conn, ep) ==
    IF ep[1] = my_ip
    THEN [known_peers |-> known, connecting |-> conn]
    ELSE [known_peers |-> add_peer(known, ep[1], ep[2]),
          connecting |-> [conn EXCEPT ![ep] = @ + 1]]

\* add_peers: one add_peer_info task per entry of the tracker's peers_list,
\* all created before any connection is made.
add_peers(ep) ==
    /\ registry = {}
    /\ ep \notin known_peers
    /\ connecting[ep] = 0
    /\ valid_port(ep[2])
    /\ Tasks < MaxTasks
    /\ known_peers' = add_peer_info(known_peers, connecting, ep).known_peers
    /\ connecting' = add_peer_info(known_peers, connecting, ep).connecting
    /\ UNCHANGED <<registry, handlers, sent_peers, pex_added, peer_source, stats, pex_times, pex_peers>>
    /\ MainUnchanged

\* Peer.listen_for_messages, a ut_pex message from a connected peer naming
\* one endpoint: add_peer for what process_pex_message keeps, then
\* connect_to_pex_peers, which skips only registered endpoints.
PexReceived(from, ep) ==
    /\ from \in registry
    /\ Tasks < MaxTasks
    /\ LET new_peers == process_pex_message({ep})
           known == IF ep \in new_peers
                    THEN add_peer(known_peers, ep[1], ep[2])
                    ELSE known_peers
       IN  IF ep \in unconnected_peers(new_peers, registry)
           THEN /\ known_peers' = add_peer_info(known, connecting, ep).known_peers
                /\ connecting' = add_peer_info(known, connecting, ep).connecting
                /\ peer_source' =
                      [peer_source EXCEPT !.connecting[ep] =
                          @ + add_peer_info(known, connecting, ep).connecting[ep]
                            - connecting[ep]]
           ELSE /\ known_peers' = known
                /\ UNCHANGED <<connecting, peer_source>>
    /\ pex_peers' = IF ep \in process_pex_message({ep})
                    THEN add_pex_peer(pex_peers, ep[1], ep[2])
                    ELSE pex_peers
    /\ UNCHANGED <<registry, handlers, sent_peers, pex_added, stats, pex_times>>
    /\ MainUnchanged

\* add_peer_info after _connect_peer returned: a healthy peer is stored in
\* the registry under its endpoint and a handle_peer task is spawned for it.
\* The stored object is the new Peer, whose sent_peers is empty.
ConnectDone(ep, healthy) ==
    /\ connecting[ep] > 0
    /\ connecting' = [connecting EXCEPT ![ep] = @ - 1]
    /\ \E source \in Sources :
          /\ IF source = "pex" THEN peer_source.connecting[ep] > 0
                               ELSE connecting[ep] > peer_source.connecting[ep]
          /\ IF healthy
             THEN /\ stats.connected_from_tracker + stats.connected_from_pex < MaxConnected
                  /\ registry' = registry \cup {ep}
                  /\ handlers' = [handlers EXCEPT ![ep] = @ + 1]
                  /\ sent_peers' = [sent_peers EXCEPT ![ep] = {}]
                  /\ pex_times' = [pex_times EXCEPT ![ep] = [e \in Endpoints |-> 0]]
                  /\ stats' = count_connected(stats, source)
                  /\ peer_source' =
                        [peer_source EXCEPT !.connecting[ep] = @ - FromPex(source),
                                            !.handlers[ep] = @ + FromPex(source),
                                            !.connected[ep] = source]
             ELSE /\ UNCHANGED <<registry, handlers, sent_peers, pex_times, stats>>
                  /\ peer_source' =
                        [peer_source EXCEPT !.connecting[ep] = @ - FromPex(source)]
    /\ UNCHANGED <<known_peers, pex_added, pex_peers>>
    /\ MainUnchanged

\* handle_peer returns; `finally` deletes the endpoint's registry entry,
\* whichever Peer object it holds, and counts down for the source of the
\* task's own peer if there was an entry.
HandlerEnds(ep) ==
    /\ handlers[ep] > 0
    /\ handlers' = [handlers EXCEPT ![ep] = @ - 1]
    /\ registry' = registry \ {ep}
    /\ \E source \in Sources :
          /\ IF source = "pex" THEN peer_source.handlers[ep] > 0
                               ELSE handlers[ep] > peer_source.handlers[ep]
          /\ stats' = IF ep \in registry THEN count_removed(stats, source) ELSE stats
          /\ peer_source' =
                [peer_source EXCEPT !.handlers[ep] = @ - FromPex(source),
                                    !.connected[ep] = "none"]
    /\ UNCHANGED <<known_peers, connecting, sent_peers, pex_added, pex_times, pex_peers>>
    /\ MainUnchanged

\* share_peers_via_pex, one round: for every registered peer that is ready
\* (it supports PEX, its interval has passed, its writer is open) the
\* coroutine send_pex_message(peer_list, my_ip) is created.  Run to its end
\* it builds the message from the known peers but the peer itself, records it
\* in sent_peers and sends it; a coroutine that is created and never awaited
\* does not run, and the round changes nothing.
GossipEvent(ready) ==
    [session |-> 0, piece |-> NoPiece, result |-> "Gossip", ready |-> ready]
share_peers_via_pex(run) ==
    /\ Cardinality(registry) < 40
    /\ \E ready \in SUBSET registry :
          /\ ready # {}
          /\ event' = GossipEvent(ready)
          /\ sent_peers' =
                [ep \in Endpoints |->
                    IF run /\ ep \in ready
                    THEN send_pex_message(sent_peers[ep],
                                          peer_list(known_peers, ep), my_ip).sent_peers
                    ELSE sent_peers[ep]]
          /\ pex_added' =
                [ep \in Endpoints |->
                    LET msg == send_pex_message(sent_peers[ep],
                                                peer_list(known_peers, ep), my_ip)
                    IN  IF run /\ ep \in ready /\ msg.added # NoMessage
                        THEN msg.added
                        ELSE pex_added[ep]]
          /\ pex_times' =
                [ep \in Endpoints |->
                    LET msg == send_pex_message(sent_peers[ep],
                                                peer_list(known_peers, ep), my_ip)
                    IN  IF run /\ ep \in ready /\ msg.added # NoMessage
                        THEN [e \in Endpoints |->
                                 pex_times[ep][e] + (IF e \in msg.added THEN 1 ELSE 0)]
                        ELSE pex_times[ep]]
    /\ UNCHANGED <<known_peers, registry, connecting, handlers, pex_peers, stats,
                   peer_source>>
    /\ UNCHANGED <<torrent, pmvars, connected_peers, session_state, peervars,
                   have_sent, choked, announced, task, probe>>

GossipNext ==
    \/ \E ep \in Endpoints : add_peers(ep)
    \/ \E from \in Endpoints, ep \in Endpoints : PexReceived(from, ep)
    \/ \E ep \in Endpoints, healthy \in BOOLEAN : ConnectDone(ep, healthy)
    \/ \E ep \in Endpoints : HandlerEnds(ep)
    \/ share_peers_via_pex(TRUE)

GossipSpec == Init /\ [][GossipNext]_vars

\* The gossip rounds as TorrentSession._download_loop's peer manager makes
\* them: share_peers_via_pex calls peer.pex.send_pex_message(...) without
\* await, so the coroutine it creates is never run.
awaited == FALSE
SessionGossipNext ==
    \/ \E ep \in Endpoints : add_peers(ep)
    \/ \E from \in Endpoints, ep \in Endpoints : PexReceived(from, ep)
    \/ \E ep \in Endpoints, healthy \in BOOLEAN : ConnectDone(ep, healthy)
    \/ \E ep \in Endpoints : HandlerEnds(ep)
    \/ share_peers_via_pex(awaited)
SessionGossipSpec == Init /\ [][SessionGossipNext]_vars

\* The swarm with a good peer under fair scheduling.  The seed connects, is
\* healthy, unchokes within the wait, never chokes and answers every request
\* with the right block; session 1 is any peer.  Every task that can take its
\* next step does so eventually, a pending request is answered or times out,
\* and time passes.
LiveNext ==
    \/ PeerConnect(Seed, Handshake(OurInfoHash))
    \/ \E response \in {NoHandshake, Handshake(OurInfoHash)} : PeerConnect(1, response)
    \/ RecvFrame(Seed, 1, FullBitfield, 0)
    \/ \E message_id \in {1, 5} : RecvFrame(1, message_id, FullBitfield, 0)
    \/ \E s \in Sessions : WaitUnchoke(s)
    \/ UnchokeTimeout(1)
    \/ \E s \in Sessions : LoopExit(s)
    \/ \E s \in Sessions : ChoosePiece(s)
    \/ \E s \in Sessions : RequestBlock(s)
    \/ BlockTimeout(1)
    \/ \E good \in BOOLEAN : ReceiveBlock(1, good, {}, TRUE)
    \/ ReceiveBlock(Seed, TRUE, {}, TRUE)
    \/ Tick
    \/ CheckComplete

\* handle_peer and the listener of one session are sequential tasks: the
\* steps of a session that can be taken.
SessionStep(s) ==
    \/ WaitUnchoke(s)
    \/ LoopExit(s)
    \/ ChoosePiece(s)
    \/ RequestBlock(s)
    \/ s # Seed /\ UnchokeTimeout(s)
    \/ s # Seed /\ BlockTimeout(s)
    \/ \E good \in BOOLEAN : (s = Seed => good) /\ ReceiveBlock(s, good, {}, TRUE)
    \/ s = Seed /\ PeerConnect(Seed, Handshake(OurInfoHash))
    \/ s = Seed /\ RecvFrame(Seed, 1, FullBitfield, 0)

\* SessionStep(s) can be taken and changes the state: the task of s is not
\* blocked (waiting for a frame that does not come, sleeping with nothing to
\* choose, or ended).
CanStep(s) ==
    \/ s = Seed /\ pc[s] = "idle" /\ session_state = DOWNLOADING
    \/ pc[s] = "wait_unchoke"
          /\ (s = Seed => (~peer_choking[s] \/ ~writer_closed[s]))
    \/ pc[s] = "loop"
          /\ \/ session_state \in {COMPLETED, STOPPED}
             \/ session_state = DOWNLOADING /\ peer_choking[s] /\ writer_closed[s]
             \/ /\ session_state = DOWNLOADING
                /\ ~peer_choking[s]
                /\ \/ candidates(PM, pieces, peer_bitfield[s]) # {}
                   \/ sweep_locks(PM) # PM
                   \/ event # NoEvent
    \/ pc[s] \in {"request", "await"}
    \/ /\ s = Seed
       /\ pc[s] \notin {"idle", "done"}
       /\ ~writer_closed[s]
       /\ peer_choking[s] \/ event # NoEvent

\* The event loop runs every task that is ready: weak fairness of each
\* session's steps, WF_vars(SessionStep(s)), with the enabling condition
\* CanStep(s) written out; the clock advances and _download_loop polls.
LiveFairness ==
    /\ \A s \in Sessions :
          <>[]CanStep(s) => []<><<SessionStep(s)>>_vars
    /\ WF_vars(Tick)
    /\ WF_vars(CheckComplete)

LiveSpec == Init /\ [][LiveNext]_vars /\ LiveFairness

TypeOK ==
    /\ completed_pieces \subseteq PieceIdx
    /\ busy_pieces \subseteq PieceIdx
    /\ \A s \in Sessions : Holding(s) => next_piece[s] \in PieceIdx

\* --------------------------------------------------------- properties
\* C1: a piece is claimed by at most one peer session: while a session that
\* choose_next_piece handed piece p is still downloading p, no other session
\* is handed p or delivers blocks into p's buffer.
C1_ExclusiveClaim ==
    \A s \in Sessions, t \in Sessions :
        (s # t /\ Holding(s) /\ Holding(t)) => next_piece[s] # next_piece[t]

\* C2: Verified status is monotone: no step removes a piece index from
\* completed_pieces or clears its bit of the bitfield, whatever the step is
\* (further blocks for the piece, a later hash failure, release, sweep, choose).
C2_VerifiedMonotone ==
    [][/\ completed_pieces \subseteq completed_pieces'
       /\ \A i \in DOMAIN bitfield : bitfield[i] = 1 => bitfield'[i] = 1]_vars
\* a verified piece whose buffer a stale session then completed with bytes
\* failing the hash
C2_Witness ==
    /\ event.result = "HashFailed"
    /\ event.piece \in completed_pieces
    /\ bitfield[event.piece + 1] = 1

C4_ReadBackMatches ==
    \A p \in completed_pieces :
        SHA1(ReadLoop(output_files, disk, 1, p * torrent.piece_length,
                      PieceLen(p), Zeros(PieceLen(p)), 0))
            = pieces[p + 1].piece_hash

\* C6: the number of busy pieces never exceeds the number of connected peers
\* in the registry.
C6_BusyBound == Cardinality(busy_pieces) <= Cardinality(connected_peers)

\* C7: a delivery that completes a piece whose SHA-1 check fails increments
\* failed_attempts of that piece by exactly one.
C7_FailedAttemptsCounted ==
    [][event'.result = "HashFailed" =>
          failed_attempts'[event'.piece] = failed_attempts[event'.piece] + 1]_vars

\* C8: when a delivery by session S ends in a hash failure, S is dropped: its
\* task ends, it leaves the registry and is given no further piece.
C8_HashFailureDropsPeer ==
    [][event'.result = "HashFailed" =>
          /\ pc'[event'.session] = "done"
          /\ event'.session \notin connected_peers']_vars

\* C9: every piece that became Verified has had exactly one Have broadcast,
\* and no other piece has had one: when the download is COMPLETED each piece
\* counts one Have, and at no time has an unverified piece been announced.
C9_OneHavePerPiece ==
    /\ \A p \in PieceIdx : p \notin completed_pieces => have_sent[p] = 0
    /\ session_state = COMPLETED => \A p \in PieceIdx : have_sent[p] = 1

\* C10: processing an inbound Choke frame (id 0) leaves peer_choking true,
\* processing an Unchoke frame (id 1) leaves it false, and no other step
\* changes the flag.
C10_ChokeFlagFollowsFrames ==
    [][\A s \in Sessions :
          /\ RecvFrame(s, 0, FullBitfield, 0) => peer_choking'[s]
          /\ RecvFrame(s, 1, FullBitfield, 0) => ~peer_choking'[s]
          /\ peer_choking'[s] # peer_choking[s] =>
                \E message_id \in {0, 1} :
                    RecvFrame(s, message_id, FullBitfield, 0)]_vars

\* C5: under fair scheduling, with a connected peer that has every piece,
\* unchokes us and answers every request with correct data, eventually every
\* piece is in completed_pieces (is_complete() holds), whatever the other
\* peer does.
C5_Convergence == <>pm_is_complete(completed_pieces, pieces)

\* C11: a session sends no Request while its peer is choking it (peer_choking
\* as the kind of the last Choke/Unchoke frame received, and the flag itself),
\* also not for the remaining blocks and the retries of a piece in progress.
C11_NoRequestWhileChoked ==
    [][\A s \in Sessions :
          (pc[s] = "request" /\ pc'[s] = "await") =>
              ~choked[s] /\ ~peer_choking[s]]_vars

\* C12: a peer served the first block of a multi-block piece and then choked
\* us, and serves no more: when the session's download of the piece ends, the
\* claim is released (the piece is not busy), the piece is not verified, and
\* the session sees itself choked, so that its loop resends Interested and
\* waits instead of choosing another piece.
C12_ChokeDuringDownload ==
    [][\A s \in Sessions :
          (/\ choked[s] /\ Holding(s) /\ offset[s] > 0
           /\ pc'[s] \in {"loop", "done"} /\ event' = NoEvent) =>
              /\ next_piece[s] \notin busy_pieces'
              /\ next_piece[s] \notin completed_pieces'
              /\ peer_choking'[s]]_vars

\* C13: when choose_next_piece finds no candidate for the calling peer, every
\* busy piece whose lock is older than 120 s is no longer busy afterwards, and
\* choose_next_piece would then offer it to any peer whose bitfield has it.
C13_ExpiredClaimSwept ==
    [][\A s \in Sessions :
          (ChoosePiece(s) /\ candidates(PM, pieces, peer_bitfield[s]) = {}) =>
              \A i \in busy_pieces :
                  piece_lock_time[i] > LOCK_TIMEOUT =>
                      /\ i \notin busy_pieces'
                      /\ \A bf \in Bitfields :
                            bf[i + 1] = 1 =>
                                i \in candidates(
                                    [completed_pieces |-> completed_pieces',
                                     busy_pieces |-> busy_pieces'],
                                    pieces, bf)]_vars
\* a piece whose expired claim was swept has been chosen again by another
\* peer while the first holder is still downloading it
C13_Witness ==
    \E s \in Sessions, t \in Sessions :
        /\ s # t /\ Holding(s) /\ pc[t] = "request" /\ offset[t] = 0
        /\ next_piece[s] = next_piece[t]
        /\ next_piece[t] \in busy_pieces
        /\ piece_lock_time[next_piece[t]] = 0

\* C14: when a peer session's task ends, whatever the reason, then in the
\* state it leaves behind its socket is closed, its endpoint is absent from
\* the connected-peer registry, and no piece is busy on its behalf: every
\* busy piece is held by a session that is still downloading it.
C14_EndedSessionCleaned ==
    [][\A s \in Sessions :
          (pc[s] \notin {"idle", "done"} /\ pc'[s] = "done") =>
              /\ writer_closed'[s]
              /\ s \notin connected_peers'
              /\ \A i \in busy_pieces' :
                    \E t \in Sessions :
                        pc'[t] \in {"request", "await"} /\ next_piece'[t] = i]_vars

\* C15: a connection whose handshake reply carries an info_hash other than
\* ours is dropped: the peer does not enter the connected-peer registry and
\* no handle_peer task is started for it, so it is never asked for a piece.
C15_ForeignInfoHashDropped ==
    [][\A s \in Sessions :
          PeerConnect(s, Handshake(OtherInfoHash)) =>
              s \notin connected_peers' /\ pc'[s] = "done"]_vars

C17_OneSessionPerEndpoint ==
    \A ep \in Endpoints : handlers[ep] <= 1

\* C18: once the session is COMPLETED, "completed" has been announced to the
\* tracker exactly once and no peer session that had a connection has its
\* socket still open.
C18_CompletedAnnouncedAndClosed ==
    session_state = COMPLETED =>
        /\ announced = <<"completed">>
        /\ \A s \in Sessions :
              (pc[s] \notin {"idle", "done"} \/ failure_count[s] > 0) =>
                  writer_closed[s]

\* C19: when the session is reported STOPPED, "stopped" has been announced to
\* the tracker and every registered peer's socket is closed.
C19_StoppedAnnouncedAndClosed ==
    session_state = STOPPED =>
        /\ announced = <<"stopped">>
        /\ \A s \in connected_peers : writer_closed[s]

\* C20: is_complete() is true exactly when every piece of the torrent, one
\* per piece hash of the metainfo, is verified.
C20_CompleteIffAllVerified ==
    pm_is_complete(completed_pieces, pieces) <=>
        \A i \in 0..(torrent.total_pieces - 1) : i \in completed_pieces

\* C21: after a piece is written, every byte of it is in the file that holds
\* its absolute offset, at that offset within the file (so the files' parts,
\* one after the other, are the piece), and get_piece_block reads the piece
\* back as written.
C21_StraddleSplit ==
    event.result = "Written" =>
        /\ \A k \in 0..(Len(event.data) - 1) :
              \A i \in 1..Len(output_files) :
                  LET at == event.piece * torrent.piece_length + k
                  IN  (output_files[i].offset <= at
                       /\ at < output_files[i].offset + output_files[i].length) =>
                          disk[i][at - output_files[i].offset + 1] = event.data[k + 1]
        /\ get_piece_block(completed_pieces, output_files, disk,
                           torrent.piece_length, event.piece, 0, Len(event.data))
              = event.data

\* C22: a restart on the download directory keeps every piece that was
\* verified before it verified and its bytes on disk, and afterwards the
\* verified set and the bitmap in the progress file both are the set of
\* pieces whose bytes on disk hash to their piece hash.
C22_RestartConsistent ==
    [][Restart =>
          /\ completed_pieces \subseteq completed_pieces'
          /\ completed_pieces' =
                {p \in PieceIdx :
                    SHA1(ReadLoop(output_files', disk', 1, p * torrent.piece_length,
                                  PieceLen(p), Zeros(PieceLen(p)), 0))
                        = pieces[p + 1].piece_hash}
          /\ (progress_file' # <<>> =>
                progress_file' = tobytes(
                    [i \in 1..number_of_pieces |->
                        IF (i - 1) \in completed_pieces' THEN 1 ELSE 0]))]_vars

\* C23: a delivery that verifies a piece either leaves the piece's bytes on
\* disk, or (the write having failed for good) puts the session into the
\* ERROR state without the piece being marked verified.
C23_WriteFailureHandled ==
    [][event'.result = "Verified" =>
          \/ ReadLoop(output_files, disk', 1,
                      event'.piece * torrent.piece_length,
                      PieceLen(event'.piece), Zeros(PieceLen(event'.piece)), 0)
                = PySlice(Content, event'.piece * torrent.piece_length,
                          (event'.piece + 1) * torrent.piece_length)
          \/ /\ session_state' = ERROR
             /\ event'.piece \notin completed_pieces']_vars

\* C24: choose_next_piece hands out only a piece that, when it is called, is
\* neither completed nor busy, has positive length and is set in the peer's
\* bitfield if one is passed; when it returns, that piece (and no other) has
\* become busy, with lock age 0.  It returns None only if there is no such
\* piece, and then marks nothing busy.
C24_ChooseReturnsMissing ==
    [][\A s \in Sessions :
          ChoosePiece(s) =>
              IF pc'[s] = "request"
              THEN /\ next_piece'[s] \in PieceIdx
                   /\ next_piece'[s] \notin completed_pieces
                   /\ next_piece'[s] \notin busy_pieces
                   /\ pieces[next_piece'[s] + 1].piece_length > 0
                   /\ (peer_bitfield[s] # NoBitfield =>
                         /\ next_piece'[s] < Len(peer_bitfield[s])
                         /\ peer_bitfield[s][next_piece'[s] + 1] = 1)
                   /\ busy_pieces' = busy_pieces \cup {next_piece'[s]}
                   /\ piece_lock_time'[next_piece'[s]] = 0
              ELSE /\ busy_pieces' \subseteq busy_pieces
                   /\ \A p \in PieceIdx :
                         \/ p \in completed_pieces
                         \/ p \in busy_pieces
                         \/ (peer_bitfield[s] # NoBitfield
                             /\ peer_bitfield[s][p + 1] = 0)]_vars
\* a piece was chosen while the other piece was busy, for a peer whose
\* bitfield is known
C24_Witness ==
    \E s \in Sessions :
        /\ pc[s] = "request" /\ offset[s] = 0
        /\ peer_bitfield[s] # NoBitfield
        /\ piece_lock_time[next_piece[s]] = 0
        /\ Cardinality(busy_pieces) = 2
        /\ \E t \in Sessions : pc[t] = "loop"

\* C25: a delivery that ends in a hash failure leaves the piece's buffer
\* flushed (zeroed, no block recorded) and the piece missing: neither busy nor
\* completed, so that choose_next_piece offers it to every peer that has it.
C25_HashFailureResetsPiece ==
    [][event'.result = "HashFailed" =>
          /\ received'[event'.piece] = EmptyReceived
          /\ raw_data'[event'.piece] = Zeros(PieceLen(event'.piece))
          /\ event'.piece \notin busy_pieces'
          /\ event'.piece \notin completed_pieces'
          /\ \A bf \in Bitfields :
                bf[event'.piece + 1] = 1 =>
                    event'.piece \in candidates(
                        [completed_pieces |-> completed_pieces',
                         busy_pieces |-> busy_pieces'], pieces, bf)]_vars

\* C26: a piece buffer is complete exactly when every byte offset of the piece
\* has been covered by some add_block since the last flush.
C26_CompleteIffCovered ==
    is_complete(probe, PIECE_LENGTH) <=>
        (\A o \in 0..(PIECE_LENGTH - 1) : o \in probe.covered)

\* C27: adding the block that was added just before it once more leaves the
\* buffer, the record of received blocks and is_complete() as they were.
C27_AddBlockIdempotent ==
    [][probe'.repeated =>
          /\ probe'.raw_data = probe.raw_data
          /\ probe'.received = probe.received
          /\ is_complete(probe', PIECE_LENGTH) = is_complete(probe, PIECE_LENGTH)]_vars
\* a block that does not fill the piece has been added twice in a row
C27_Witness ==
    /\ probe.repeated
    /\ Len(probe.last[2]) < PIECE_LENGTH
    /\ ~is_complete(probe, PIECE_LENGTH)

C30_AbandonedAtMaxFailures ==
    [][\A s \in Sessions :
          LET returned == Holding(s) /\ pc'[s] \notin {"request", "await"}
              verified == event'.session = s /\ event'.result = "Verified"
          IN  /\ (returned /\ verified)
                    => (failure_count'[s] = 0 /\ pc'[s] = "loop")
              /\ (returned /\ ~verified)
                    => /\ failure_count'[s] = failure_count[s] + 1
                       /\ next_piece[s] \notin busy_pieces'
                       /\ (pc'[s] = "done") <=> (failure_count'[s] >= max_failures)
                       /\ (pc'[s] = "done") => (s \notin connected_peers')
                       /\ (pc'[s] # "done") => (pc'[s] = "loop")
              /\ (failure_count'[s] # failure_count[s]) => returned
              /\ (pc'[s] # "done") => (failure_count'[s] < max_failures)]_vars

\* C31: no endpoint is put into the 'added' field of more than one PEX message
\* built for the same peer session, however many gossip rounds there are.
C31_NoEndpointGossipedTwice ==
    \A peer \in Endpoints : \A e \in Endpoints : pex_times[peer][e] <= 1
\* a peer session has been given two endpoints in two different messages
C31_Witness ==
    \E peer \in Endpoints : \E e1, e2 \in Endpoints :
        /\ e1 # e2
        /\ pex_times[peer][e1] = 1 /\ pex_times[peer][e2] = 1
        /\ pex_added[peer] = {e2}
        /\ sent_peers[peer] = {e1, e2}

\* C32: an endpoint Z named in a PEX message from a connected peer X is taken
\* up only if its ip is not 0.0.0.0 and its port is in 1..65535; it is then in
\* the known peers, recorded as a PEX peer, and dialled unless it is connected
\* already; and after a gossip round to a connected peer Y, every PEX peer
\* other than Y that the address filter lets through has been carried to Y
\* in that round or an earlier one of Y's session.
C32_PexDiscovery ==
    [][/\ \A Z \in Endpoints :
             (\E X \in Endpoints : PexReceived(X, Z)) =>
                 IF Z[1] # "0.0.0.0" /\ Z[2] >= 1 /\ Z[2] <= 65535
                 THEN /\ Z \in known_peers' /\ Z \in pex_peers'
                      /\ Z \notin registry => connecting'[Z] = connecting[Z] + 1
                 ELSE UNCHANGED <<known_peers, pex_peers, connecting>>
       /\ event'.result = "Gossip" =>
             \A Y \in event'.ready : \A Z \in pex_peers' :
                 (Z # Y /\ Z[1] # my_ip) => Z \in sent_peers'[Y]]_vars

\* C33: a frame whose payload length does not match the layout of its
\* message id is rejected and the connection is dropped: the session's
\* choke flag and bitfield are what they were and the writer is closed.
C33_MalformedFrameDropped ==
    [][event'.result = "Malformed" =>
          /\ peer_choking' = peer_choking
          /\ peer_bitfield' = peer_bitfield
          /\ writer_closed'[event'.session]]_vars

\* C34: while the session is PAUSED no piece becomes busy and no peer session
\* sends a Request, and a peer session whose download ends while PAUSED leaves
\* its piece not busy.
C34_NothingStartsWhilePaused ==
    [][(session_state = PAUSED /\ session_state' = PAUSED) =>
          /\ busy_pieces' \subseteq busy_pieces
          /\ \A s \in Sessions :
                /\ ~(pc[s] = "request" /\ pc'[s] = "await")
                /\ (Holding(s) /\ pc'[s] \notin {"request", "await"})
                      => next_piece[s] \notin busy_pieces']_vars

\* C35: while the session is STOPPED no piece becomes busy, no peer session
\* sends a Request, and no delivery verifies a piece or changes the files.
C35_NothingRunsAfterStop ==
    [][(session_state = STOPPED /\ session_state' = STOPPED) =>
          /\ busy_pieces' \subseteq busy_pieces
          /\ \A s \in Sessions : ~(pc[s] = "request" /\ pc'[s] = "await")
          /\ event'.result # "Verified"
          /\ completed_pieces' = completed_pieces
          /\ disk' = disk]_vars

\* C36: when a peer session whose claim on a piece has ended (the piece is
\* busy for another session that is still downloading it) finishes its own
\* download of the piece without verifying it, the piece stays busy.
C36_StaleReleaseKeepsClaim ==
    [][\A s \in Sessions : \A t \in Sessions \ {s} :
          (/\ Holding(s) /\ Holding(t) /\ next_piece[s] = next_piece[t]
           /\ next_piece[t] \in busy_pieces /\ holder[next_piece[t]] = t
           /\ pc'[s] \notin {"request", "await"}
           /\ pc'[t] \in {"request", "await"}
           /\ event'.result # "Verified")
             => next_piece[t] \in busy_pieces']_vars

\* C37: each per-source connection counter is non-negative and equals the
\* number of registered peers of that source.
C37_CountersMatchRegistry ==
    /\ stats.connected_from_tracker >= 0
    /\ stats.connected_from_pex >= 0
    /\ stats.connected_from_tracker =
          Cardinality({ep \in registry : peer_source.connected[ep] = "tracker"})
    /\ stats.connected_from_pex =
          Cardinality({ep \in registry : peer_source.connected[ep] = "pex"})

\* C38: whenever another task can run, no piece is both busy and completed,
\* and the pieces that have a lock timestamp are exactly the busy pieces.
C38_BusyDisjointAndLocked ==
    (\A s \in Sessions : pc[s] # "request") =>
        /\ busy_pieces \cap completed_pieces = {}
        /\ {i \in DOMAIN piece_lock_time : piece_lock_time[i] # NoLock} = busy_pieces

====
